---- MODULE Spec2Model ----
(***************************************************************************)
(* Retrieval-augmented explanation pipeline of the thyroid nodule service: *)
(* token chunking at ingestion (ingest_guides.py), per-guideline retrieval *)
(* over the vector store (retriever.py, llm_response.py) and the parser    *)
(* that splits one generated answer into the tr / us / eu sections.        *)
(***************************************************************************)
EXTENDS Integers, Sequences, FiniteSets, TLC

VARIABLES
    \* ---- ingestion of one page: _process_pdf_page_by_page / _chunk_text
    page_text,      \* text returned by _extract_single_page
    text,           \* the text handed to _chunk_text (cleaned page text)
    tokens,         \* tokenizer.encode(text)
    chunk_size,     \* options['chunk_size']
    chunk_overlap,  \* options['chunk_overlap']
    start,          \* window start of the while loop
    chunks,         \* the list _chunk_text builds and returns
    windows,        \* history: <<start, end>> of every window the loop visited
    pc,             \* position of the page pipeline
    \* ---- parse_guideline_sections
    full_text,      \* the argument: the generated explanation
    result,         \* the returned dictionary with the keys tr, us, eu
    parse_pc,       \* "call" before the call, "returned" after it
    \* ---- retrieval and explanation of one evaluation request
    api_key,        \* settings.OPENAI_API_KEY is configured
    collection,     \* the records of the vector store's collection
    last_call,      \* what the last retrieval / explanation call gave back
    \* ---- one run of the ingest_guides command: Command.handle
    pdf_files,      \* list(assets_dir.glob("*.pdf")): the file names
    file_idx,       \* how many files the for loop of handle has taken
    page_num,       \* the next page_num of the page loop (0-based)
    added,          \* chunks stored so far for the current file
    total_chunks,   \* the sum handle reports
    stored,         \* metadata of every chunk handed to the store, in order
    attempted,      \* history: the files the loop has started, in order
    failed,         \* history: the files whose processing raised
    pages_tried,    \* history: <<file, page_num>> of every page extracted
    ing_pc,         \* position of handle
    reset,          \* options['reset'] of the run
    backend_ids,    \* the chunk ids the collection holds
    \* ---- the process-wide store handle and the calls that use it
    vectorstore_instance,   \* _vectorstore_instance: 0 is None
    constructed,            \* number of VectorStore objects constructed
    store_count,            \* collection.count() of the backend
    calls,          \* per thread: the call it is in and what it did
    \* ---- the classification and recommendation rules
    rule_call       \* the last call of a rule function: its input and result

chunkVars == <<page_text, text, tokens, chunk_size, chunk_overlap, start, chunks,
               windows, pc>>

parseVars == <<full_text, result, parse_pc>>

ragVars == <<api_key, collection, last_call>>

ingestVars == <<reset, backend_ids, pdf_files, file_idx, page_num, added, total_chunks, stored,
                attempted, failed, pages_tried, ing_pc>>

serviceVars == <<vectorstore_instance, constructed, store_count, calls>>

ruleVars == <<rule_call>>

vars == <<chunkVars, parseVars, ragVars, ingestVars, serviceVars, ruleVars>>

----------------------------------------------------------------------------
(* Bounds of the model *)

MaxTextLen == 5
MaxChunkSize == 3

\* Token count of the example page chunked with the command's defaults.
ExamplePageTokens == 1000

\* Cap on loop iterations: a loop that does not advance is cut here.
MaxIter == MaxTextLen + 2

----------------------------------------------------------------------------
(* Text: a sequence of characters.  "a" is any non-blank character, "sp" a *)
(* blank and "nl" a line break; the last two are what str.strip() removes. *)

Chars == {"a", "sp", "nl"}

NoResult == [tr |-> <<>>, us |-> <<>>, eu |-> <<>>]

IsSpace(c) == c \in {"sp", "nl"}

Min(a, b) == IF a < b THEN a ELSE b

Max(a, b) == IF a > b THEN a ELSE b

RECURSIVE TextsUpTo(_)
TextsUpTo(n) ==
    IF n = 0 THEN {<<>>}
    ELSE LET shorter == TextsUpTo(n - 1)
         IN  shorter \cup {Append(s, c) : s \in {t \in shorter : Len(t) = n - 1},
                                          c \in Chars}

\* str.strip(): drop leading and trailing whitespace.
LStrip(s) ==
    LET firstInk == {i \in 1..Len(s) : ~IsSpace(s[i])}
    IN  IF firstInk = {} THEN <<>>
        ELSE SubSeq(s, CHOOSE i \in firstInk : \A j \in firstInk : i <= j, Len(s))

RStrip(s) ==
    LET ink == {i \in 1..Len(s) : ~IsSpace(s[i])}
    IN  IF ink = {} THEN <<>>
        ELSE SubSeq(s, 1, CHOOSE i \in ink : \A j \in ink : i >= j)

Strip(s) == RStrip(LStrip(s))

\* seq[lo:hi] of Python, negative and out-of-range indices included.
PyIndex(i, n) == IF i < 0 THEN Max(i + n, 0) ELSE Min(i, n)

PySlice(s, lo, hi) == SubSeq(s, PyIndex(lo, Len(s)) + 1, PyIndex(hi, Len(s)))

\* text.split('\n'): the lines between line breaks (always at least one).
SplitLines(s) ==
    LET brk  == {i \in 1..Len(s) : s[i] = "nl"}
        cuts == {0} \cup brk \cup {Len(s) + 1}
        n    == Cardinality(brk) + 1
        \* the k-th cut in ascending order
        Cut(k) == CHOOSE c \in cuts : Cardinality({d \in cuts : d < c}) = k - 1
    IN  [k \in 1..n |-> SubSeq(s, Cut(k) + 1, Cut(k + 1) - 1)]

\* '\n'.join(lines)
RECURSIVE JoinLines(_)
JoinLines(ls) ==
    IF ls = <<>> THEN <<>>
    ELSE IF Len(ls) = 1 THEN ls[1]
    ELSE ls[1] \o <<"nl">> \o JoinLines(Tail(ls))

\* _clean_text: strip every line, drop the empty ones, join with '\n'.
CleanText(s) ==
    JoinLines(SelectSeq([k \in DOMAIN SplitLines(s) |-> Strip(SplitLines(s)[k])],
                        LAMBDA l : l # <<>>))

----------------------------------------------------------------------------
(* Tokenizer.  A token is a non-empty piece of the text; the byte-pair      *)
(* vocabulary merges a blank with the character that follows it (" a") and *)
(* leaves every other character a token of its own, so the token count is  *)
(* not the character count.  decode concatenates the pieces.               *)

\* The longest token of the vocabulary, in characters.
TokenWidth == 2

IsTokenStart(s, i) == ~(i > 1 /\ s[i] = "a" /\ s[i - 1] = "sp")

\* tokenizer.encode(text)
Encode(s) ==
    LET piece == [i \in 1..Len(s) |->
                    IF ~IsTokenStart(s, i) THEN <<>>
                    ELSE IF i < Len(s) /\ s[i] = "sp" /\ s[i + 1] = "a"
                         THEN <<"sp", "a">>
                         ELSE <<s[i]>>]
    IN  SelectSeq(piece, LAMBDA t : t # <<>>)

\* tokenizer.decode(tokens): the pieces, concatenated
Decode(ts) ==
    LET slot == [p \in 1..(TokenWidth * Len(ts)) |->
                    LET k == ((p - 1) \div TokenWidth) + 1
                        o == ((p - 1) % TokenWidth) + 1
                    IN  IF o <= Len(ts[k]) THEN ts[k][o] ELSE "none"]
    IN  SelectSeq(slot, LAMBDA c : c # "none")

----------------------------------------------------------------------------
(* _chunk_text, one loop iteration per step *)

ValidParams == chunk_size >= 1 /\ 0 <= chunk_overlap /\ chunk_overlap < chunk_size

\* end = min(start + chunk_size, len(tokens))
WindowEnd(s, size, n) == Min(s + size, n)

\* start = end - chunk_overlap
NextStartNoOverlap(end, overlap) == end

NextStart(end, overlap) == end - overlap

\* the text of one window: tokenizer.decode(tokens[start:end]).strip()
WindowText(ts, s, e) == Strip(Decode(PySlice(ts, s, e)))

\* if start >= len(tokens) - chunk_overlap: break
LoopBreaksAtEnd(s, n, overlap) == s >= n

LoopBreaks(s, n, overlap) == s >= n - overlap

\* the early return: the token count fits one chunk
FitsOneChunkStrict(n, size) == n < size

FitsOneChunk(n, size) == n <= size

\* the page loop of _process_pdf_page_by_page: a blank page is skipped
SkipBlankPage ==
    /\ pc = "page"
    /\ Strip(page_text) = <<>>
    /\ pc' = "skipped"
    /\ UNCHANGED <<page_text, text, tokens, chunk_size, chunk_overlap, start,
                   chunks, windows>>
    /\ UNCHANGED <<parseVars, ragVars, ingestVars, serviceVars, ruleVars>>

CleanPage ==
    /\ pc = "page"
    /\ Strip(page_text) # <<>>
    /\ text' = CleanText(page_text)
    /\ pc' = "chunk"
    /\ UNCHANGED <<page_text, tokens, chunk_size, chunk_overlap, start, chunks,
                   windows>>
    /\ UNCHANGED <<parseVars, ragVars, ingestVars, serviceVars, ruleVars>>

\* tokens = encode(text); return [text] when it fits, else enter the loop
ChunkTextEnter ==
    /\ pc = "chunk"
    /\ tokens' = Encode(text)
    /\ IF FitsOneChunk(Len(Encode(text)), chunk_size)
       THEN chunks' = <<text>> /\ pc' = "done"
       ELSE chunks' = <<>> /\ pc' = "loop"
    /\ start' = 0
    /\ UNCHANGED <<page_text, text, chunk_size, chunk_overlap, windows>>
    /\ UNCHANGED <<parseVars, ragVars, ingestVars, serviceVars, ruleVars>>

ChunkLoopIter ==
    /\ pc = "loop"
    /\ start < Len(tokens)
    /\ Len(windows) < MaxIter
    /\ LET end == WindowEnd(start, chunk_size, Len(tokens))
           ct  == WindowText(tokens, start, end)
       IN  /\ chunks' = IF ct # <<>> THEN Append(chunks, ct) ELSE chunks
           /\ windows' = Append(windows, <<start, end>>)
           /\ start' = NextStart(end, chunk_overlap)
           /\ pc' = IF LoopBreaks(NextStart(end, chunk_overlap), Len(tokens),
                                  chunk_overlap)
                    THEN "done" ELSE "loop"
    /\ UNCHANGED <<page_text, text, tokens, chunk_size, chunk_overlap>>
    /\ UNCHANGED <<parseVars, ragVars, ingestVars, serviceVars, ruleVars>>

ChunkLoopExit ==
    /\ pc = "loop"
    /\ ~(start < Len(tokens))
    /\ pc' = "done"
    /\ UNCHANGED <<page_text, text, tokens, chunk_size, chunk_overlap, start,
                   chunks, windows>>
    /\ UNCHANGED <<parseVars, ragVars, ingestVars, serviceVars, ruleVars>>

\* no request is served and the collection is empty
NoCall == [kind |-> "none"]

RagIdle == api_key = TRUE /\ collection = {} /\ last_call = NoCall

\* the ingest command is not running
IngestIdle ==
    /\ reset = FALSE /\ backend_ids = {}
    /\ pdf_files = <<>> /\ file_idx = 0 /\ page_num = 0 /\ added = 0
    /\ total_chunks = 0 /\ stored = <<>> /\ attempted = <<>> /\ failed = {}
    /\ pages_tried = {} /\ ing_pc = "idle"

\* no store handle exists and no thread is in a call
ServiceIdle ==
    /\ vectorstore_instance = 0 /\ constructed = 0 /\ store_count = 0
    /\ calls = <<>>

\* no rule function has been called
RulesIdle == rule_call = [fn |-> "none"]

\* parse_guideline_sections is not running
ParseIdle == full_text = <<>> /\ result = NoResult /\ parse_pc = "idle"

ParamRange == (0 - 1)..MaxChunkSize

\* The command's defaults (--chunk-size, --chunk-overlap) on a page of
\* ExamplePageTokens one-character tokens.
DefaultChunkSize == 800

DefaultChunkOverlap == 120

ExamplePage == [i \in 1..ExamplePageTokens |-> "a"]

InitChunk ==
    /\ \/ /\ page_text \in TextsUpTo(MaxTextLen)
          /\ chunk_size \in ParamRange
          /\ chunk_overlap \in ParamRange
       \/ /\ page_text = ExamplePage
          /\ chunk_size = DefaultChunkSize
          /\ chunk_overlap = DefaultChunkOverlap
    /\ text = <<>>
    /\ tokens = <<>>
    /\ start = 0
    /\ chunks = <<>>
    /\ windows = <<>>
    /\ pc = "page"
    /\ ParseIdle
    /\ RagIdle
    /\ IngestIdle
    /\ ServiceIdle
    /\ RulesIdle

NextChunk ==
    \/ SkipBlankPage
    \/ CleanPage
    \/ ChunkTextEnter
    \/ ChunkLoopIter
    \/ ChunkLoopExit

SpecChunk == InitChunk /\ [][NextChunk]_vars

----------------------------------------------------------------------------
(* parse_guideline_sections.  The generated explanation is a sequence of    *)
(* symbols: "#" and "*" are the heading characters, "a" is any other       *)
(* non-blank character, "sp" and "nl" are whitespace, and the wording of a  *)
(* heading after its "###" or between its "**" is one symbol.               *)

MaxPieces == 4

\* for j in range(next_start - 1, max(start, next_start - 100), -1)
LookBack == 100

H3(body) == <<"#", "#", "#", body>>

Bold(body) == <<"*", "*", body, "*", "*">>

tr_markers ==
    << H3(" TR Kilavuzuna Gore:"), H3(" TR Kilavuzu:"), Bold("TR Kilavuzuna Gore:") >>

us_markers ==
    << H3(" US (ACR TI-RADS) Kilavuzuna Gore:"), H3(" US (ACR) Kilavuzu:"),
       H3(" ACR TI-RADS"), Bold("US (ACR TI-RADS) Kilavuzuna Gore:") >>

eu_markers ==
    << H3(" EU-TIRADS Kilavuzuna Gore:"), H3(" EU-TIRADS:"), H3(" EU Kilavuzu:"),
       Bold("EU-TIRADS Kilavuzuna Gore:") >>

\* text[lo:hi] == piece, for 0 <= lo
Matches(t, lo, piece) ==
    /\ lo + Len(piece) <= Len(t)
    /\ \A k \in 1..Len(piece) : t[lo + k] = piece[k]

\* text.find(marker): the lowest index at which marker occurs, else -1
Find(t, marker) ==
    LET hits == {i \in 0..Len(t) : Matches(t, i, marker)}
    IN  IF hits = {} THEN 0 - 1
        ELSE CHOOSE i \in hits : \A j \in hits : i <= j

\* for marker in markers: idx = text.find(marker); if idx != -1: ... break
\* The offset right after the first marker of the list found in the text.
SectionStart(t, markers) ==
    LET found == {m \in 1..Len(markers) : Find(t, markers[m]) # 0 - 1}
    IN  IF found = {} THEN 0 - 1
        ELSE LET m == CHOOSE x \in found : \A y \in found : x <= y
             IN  Find(t, markers[m]) + Len(markers[m])

Starts(t) ==
    [tr |-> SectionStart(t, tr_markers),
     us |-> SectionStart(t, us_markers),
     eu |-> SectionStart(t, eu_markers)]

\* positions, appended in the order tr, us, eu
Positions(t) ==
    LET st == Starts(t)
    IN  SelectSeq(<< <<"tr", st.tr>>, <<"us", st.us>>, <<"eu", st.eu>> >>,
                  LAMBDA q : q[2] # 0 - 1)

\* positions.sort(key=lambda x: x[1]): a stable sort by position
SortByDeclaredOrder(ps) == ps

SortByPosition(ps) ==
    [i \in 1..Len(ps) |->
        ps[CHOOSE k \in 1..Len(ps) :
              Cardinality({l \in 1..Len(ps) :
                              \/ ps[l][2] < ps[k][2]
                              \/ ps[l][2] = ps[k][2] /\ l < k}) = i - 1]]

\* The walk back from the next section's start to the beginning of a
\* heading prefix; the raw next start when the walk finds none.
SectionEnd(t, from, next_start) ==
    LET js == {j \in (Max(from, next_start - LookBack) + 1)..(next_start - 1) :
                 \/ Matches(t, j, <<"#", "#", "#">>)
                 \/ Matches(t, j, <<"*", "*">>)}
    IN  IF js = {} THEN next_start
        ELSE CHOOSE j \in js : \A k \in js : j >= k

\* the span [from, to) of the i-th section in text order
SectionSpan(t, sorted, i) ==
    IF i < Len(sorted)
    THEN <<sorted[i][2], SectionEnd(t, sorted[i][2], sorted[i + 1][2])>>
    ELSE <<sorted[i][2], Len(t)>>

\* result[key] = text[start:end].strip()
Extracted(t) ==
    LET sorted == SortByPosition(Positions(t))
        Value(key) ==
            IF \E i \in 1..Len(sorted) : sorted[i][1] = key
            THEN LET i == CHOOSE x \in 1..Len(sorted) : sorted[x][1] = key
                     sp == SectionSpan(t, sorted, i)
                 IN  Strip(PySlice(t, sp[1], sp[2]))
            ELSE <<>>
    IN  [tr |-> Value("tr"), us |-> Value("us"), eu |-> Value("eu")]

\* if not any(result.values()): the full text goes to all three sections
AnySection(r) == r.tr # <<>> \/ r.us # <<>> \/ r.eu # <<>>

ParseGuidelineSectionsTrimmed(t) ==
    LET r == Extracted(t)
    IN  IF AnySection(r) THEN r ELSE [tr |-> Strip(t), us |-> Strip(t), eu |-> Strip(t)]

ParseGuidelineSections(t) ==
    LET r == Extracted(t)
    IN  IF AnySection(r) THEN r ELSE [tr |-> t, us |-> t, eu |-> t]

\* The pieces an explanation is put together from.
Pieces ==
    { tr_markers[1], tr_markers[3], us_markers[1], us_markers[4],
      eu_markers[1], eu_markers[4], <<"a">>, <<"nl">> }

RECURSIVE Explanations(_)
Explanations(n) ==
    IF n = 0 THEN {<<>>}
    ELSE LET shorter == Explanations(n - 1)
         IN  shorter \cup {t \o q : t \in shorter, q \in Pieces}

\* Explanations of three headed sections, in every order of the sections
\* and with the "###" and the bold heading of each, every body "\na\n".
SectionBody == <<"nl", "a", "nl">>

ThreeSectionTexts ==
    { h[1] \o SectionBody \o h[2] \o SectionBody \o h[3] \o SectionBody :
        h \in { q \in [1..3 -> Pieces] :
                  \E tr \in {tr_markers[1], tr_markers[3]},
                     us \in {us_markers[1], us_markers[4]},
                     eu \in {eu_markers[1], eu_markers[4]} :
                        {q[1], q[2], q[3]} = {tr, us, eu} } }

ChunkIdle ==
    /\ page_text = <<>> /\ text = <<>> /\ tokens = <<>>
    /\ chunk_size = DefaultChunkSize /\ chunk_overlap = DefaultChunkOverlap
    /\ start = 0 /\ chunks = <<>> /\ windows = <<>> /\ pc = "idle"

ParseCall ==
    /\ parse_pc = "call"
    /\ result' = ParseGuidelineSections(full_text)
    /\ parse_pc' = "returned"
    /\ UNCHANGED full_text
    /\ UNCHANGED <<chunkVars, ragVars, ingestVars, serviceVars, ruleVars>>

InitParse ==
    /\ full_text \in Explanations(MaxPieces) \cup ThreeSectionTexts
    /\ result = NoResult
    /\ parse_pc = "call"
    /\ ChunkIdle
    /\ RagIdle
    /\ IngestIdle
    /\ ServiceIdle
    /\ RulesIdle

NextParse == ParseCall

SpecParse == InitParse /\ [][NextParse]_vars

----------------------------------------------------------------------------
(* Retrieval: retrieve_chunks, retrieve_guideline_chunks and the request   *)
(* functions that call them.  Distances and relevance scores are numbers   *)
(* in units of 1/Unit, so 0.3 is 3000 and the threshold 0.5 is 5000.       *)

MaxStore == 7

\* the 1 of "relevance = 1 - distance"
Unit == 10000

\* relevance_threshold: float = 0.5, the value every caller uses
RelevanceThreshold == 5000

\* top_k of the three retrievals of generate_llm_response
TopKTr == 5

TopKUs == 3

TopKEu == 3

\* top_k of the retrieval of generate_tr_guideline_summary
TopKSummary == 3

\* The guideline documents: doc_id is the file name of the PDF.
TurkeyPdf == <<"t", "u", "r", "k", "e", "y", ".", "p", "d", "f">>

AmericaPdf == <<"a", "m", "e", "r", "i", "c", "a", ".", "p", "d", "f">>

EuropePdf == <<"e", "u", "r", "o", "p", "e", ".", "p", "d", "f">>

DocIds == <<TurkeyPdf, AmericaPdf, EuropePdf>>

\* Cosine distances of a stored chunk to the request's query.
Distances == {3000, 5000, 6000}

\* str.lower()
LowerChar(c) ==
    CASE c = "A" -> "a" [] c = "C" -> "c" [] c = "E" -> "e" [] c = "R" -> "r"
      [] c = "T" -> "t" [] c = "U" -> "u" [] OTHER -> c

Lower(w) == [i \in 1..Len(w) |-> LowerChar(w[i])]

\* sub in w
Contains(sub, w) == \E i \in 0..Len(w) : Matches(w, i, sub)

\* the partition filter of retrieve_guideline_chunks
InGuideline(filter, doc_id) ==
    IF filter = "turkey"
    THEN Contains(<<"t", "u", "r", "k", "e", "y">>, Lower(doc_id))
    ELSE IF filter \in {"acr", "american"}
    THEN \/ Contains(<<"a", "c", "r">>, Lower(doc_id))
         \/ Contains(<<"a", "m", "e", "r", "i", "c", "a">>, Lower(doc_id))
    ELSE IF filter \in {"eu", "european"}
    THEN \/ Contains(<<"e", "u">>, Lower(doc_id))
         \/ Contains(<<"e", "u", "r", "o", "p", "e">>, Lower(doc_id))
    ELSE TRUE

\* the three guideline files first, any other file after them
DocIndex(d) ==
    IF \E i \in 1..Len(DocIds) : DocIds[i] = d
    THEN CHOOSE i \in 1..Len(DocIds) : DocIds[i] = d
    ELSE Len(DocIds) + 1

\* The order in which the store returns its matches: ascending distance;
\* equal distances in the order (document, page).
Before(a, b) ==
    \/ a.dist < b.dist
    \/ /\ a.dist = b.dist
       /\ \/ DocIndex(a.doc_id) < DocIndex(b.doc_id)
          \/ a.doc_id = b.doc_id /\ a.page < b.page

Ranked(recs) ==
    [i \in 1..Cardinality(recs) |->
        CHOOSE r \in recs : Cardinality({q \in recs : Before(q, r)}) = i - 1]

\* collection.query(n_results = n): the n nearest records, nearest first
Query(ranked, n) == SubSeq(ranked, 1, Min(n, Len(ranked)))

\* relevance = 1 - distance
Relevance(dist) == Unit - dist

\* round(relevance, 3): to the nearest multiple of 10, halves to even
Round3(r) ==
    LET q == r \div 10
        m == r % 10
    IN  IF m < 5 THEN 10 * q
        ELSE IF m > 5 THEN 10 * (q + 1)
        ELSE IF q % 2 = 0 THEN 10 * q ELSE 10 * (q + 1)

\* if relevance >= relevance_threshold
PassesThresholdStrict(dist) == Relevance(dist) > RelevanceThreshold

PassesThreshold(dist) == Relevance(dist) >= RelevanceThreshold

\* the dictionary retrieve_chunks appends for a kept candidate
ChunkOf(rec) ==
    [doc_id |-> rec.doc_id, page |-> rec.page, chunk_id |-> <<rec.doc_id, rec.page>>,
     relevance_score |-> Round3(Relevance(rec.dist))]

\* the formatting loop of retrieve_chunks over the store's matches
KeptChunksPrepended(matches) ==
    LET kept == SelectSeq(matches, LAMBDA rec : PassesThreshold(rec.dist))
    IN  [i \in 1..Len(kept) |-> ChunkOf(kept[Len(kept) + 1 - i])]

KeptChunks(matches) ==
    LET kept == SelectSeq(matches, LAMBDA rec : PassesThreshold(rec.dist))
    IN  [i \in 1..Len(kept) |-> ChunkOf(kept[i])]

\* retrieve_chunks with the API key configured and no failing call
RetrieveChunks(ranked, top_k) == KeptChunks(Query(ranked, top_k))

\* filtered[:top_k]
Uncapped(filtered, top_k) == filtered

Capped(filtered, top_k) == SubSeq(filtered, 1, Min(top_k, Len(filtered)))

\* retrieve_guideline_chunks
RetrieveGuidelineChunks(ranked, filter, top_k) ==
    LET found    == RetrieveChunks(ranked, top_k * 2)
        filtered == SelectSeq(found, LAMBDA c : InGuideline(filter, c.doc_id))
    IN  Capped(filtered, top_k)

\* the texts the chat completion may come back with
ChatOutputs ==
    { tr_markers[1] \o <<"nl", "a", "nl">> \o us_markers[1] \o <<"nl", "a", "nl">>
        \o eu_markers[1] \o <<"nl", "a">> }

\* f'LLM yaniti olusturulurken hata: {str(e)}'
ErrorMsg == <<"LLM yaniti olusturulurken hata">>

\* 'OpenAI API anahtari yapilandirilmamis.'
NoKeyMsg == <<"OpenAI API anahtari yapilandirilmamis.">>

NoChunks == [tr |-> <<>>, us |-> <<>>, eu |-> <<>>]

\* the citation list: doc_id, page, chunk_id of every chunk
Sources(cs) == [i \in 1..Len(cs) |->
                   [doc_id |-> cs[i].doc_id, page |-> cs[i].page,
                    chunk_id |-> cs[i].chunk_id]]

\* add_documents for one page of a document.  The pages of a document are
\* numbered in the order of their distance to the query: which page lies
\* at which distance does not matter to a query.
AddDocuments(doc, dist) ==
    /\ last_call = NoCall
    /\ api_key
    /\ Cardinality(collection) < MaxStore
    /\ LET mine == {r \in collection : r.doc_id = doc}
       IN  /\ \A r \in mine : r.dist <= dist
           /\ collection' = collection \cup
                 {[doc_id |-> doc, page |-> Cardinality(mine) + 1, dist |-> dist]}
    /\ UNCHANGED <<api_key, last_call>>
    /\ UNCHANGED <<chunkVars, parseVars, ingestVars, serviceVars, ruleVars>>

Ingest == \E i \in 1..Len(DocIds), d \in Distances : AddDocuments(DocIds[i], d)

\* generate_llm_response without an API key
GenerateNoKey ==
    /\ last_call = NoCall
    /\ ~api_key
    /\ last_call' = [kind |-> "llm", status |-> "returned",
                     llm_explanation |-> [tr |-> NoKeyMsg, us |-> NoKeyMsg,
                                          eu |-> NoKeyMsg],
                     sources |-> <<>>, chunks |-> NoChunks]
    /\ UNCHANGED <<api_key, collection>>
    /\ UNCHANGED <<chunkVars, parseVars, ingestVars, serviceVars, ruleVars>>

\* generate_llm_response: the embedding call or the store query of one of
\* the three retrievals fails; the retrievals are outside the try block
GenerateRetrievalFails ==
    /\ last_call = NoCall
    /\ api_key
    /\ \E guideline \in {"turkey", "acr", "eu"}, failing \in {"embedding", "query"} :
          last_call' = [kind |-> "llm", status |-> "raised"]
    /\ UNCHANGED <<api_key, collection>>
    /\ UNCHANGED <<chunkVars, parseVars, ingestVars, serviceVars, ruleVars>>

\* tr_chunks, us_chunks, eu_chunks: three calls, each with the same query
GuidelineChunks(recs) ==
    LET ranked == Ranked(recs)
    IN  [tr |-> RetrieveGuidelineChunks(ranked, "turkey", TopKTr),
         us |-> RetrieveGuidelineChunks(ranked, "acr", TopKUs),
         eu |-> RetrieveGuidelineChunks(ranked, "eu", TopKEu)]

\* generate_llm_response: the chat completion fails inside the try block
GenerateChatFails ==
    /\ last_call = NoCall
    /\ api_key
    /\ last_call' = [kind |-> "llm", status |-> "returned",
                     llm_explanation |-> [tr |-> ErrorMsg, us |-> ErrorMsg,
                                          eu |-> ErrorMsg],
                     sources |-> <<>>, chunks |-> GuidelineChunks(collection)]
    /\ UNCHANGED <<api_key, collection>>
    /\ UNCHANGED <<chunkVars, parseVars, ingestVars, serviceVars, ruleVars>>

\* generate_llm_response: every call succeeds
GenerateOk ==
    /\ last_call = NoCall
    /\ api_key
    /\ \E full_explanation \in ChatOutputs :
          LET found == GuidelineChunks(collection)
          IN  last_call' = [kind |-> "llm", status |-> "returned",
                            llm_explanation |-> ParseGuidelineSections(full_explanation),
                            sources |-> Sources(found.tr \o found.us \o found.eu),
                            chunks |-> found]
    /\ UNCHANGED <<api_key, collection>>
    /\ UNCHANGED <<chunkVars, parseVars, ingestVars, serviceVars, ruleVars>>

\* generate_tr_guideline_summary: its retrieve_chunks call, with the
\* matches the store returned and the chunks the call kept
SummaryRetrieves ==
    /\ last_call = NoCall
    /\ api_key
    /\ LET ranked == Ranked(collection)
       IN  last_call' = [kind |-> "summary", status |-> "returned",
                         matches |-> Query(ranked, TopKSummary),
                         chunks |-> RetrieveChunks(ranked, TopKSummary)]
    /\ UNCHANGED <<api_key, collection>>
    /\ UNCHANGED <<chunkVars, parseVars, ingestVars, serviceVars, ruleVars>>

\* the response has gone to the client; nothing of it is kept
Respond ==
    /\ last_call # NoCall
    /\ last_call' = NoCall
    /\ UNCHANGED <<api_key, collection>>
    /\ UNCHANGED <<chunkVars, parseVars, ingestVars, serviceVars, ruleVars>>

Init ==
    /\ api_key \in BOOLEAN
    /\ collection = {}
    /\ last_call = NoCall
    /\ ChunkIdle
    /\ ParseIdle
    /\ IngestIdle
    /\ ServiceIdle
    /\ RulesIdle

Next ==
    \/ Ingest
    \/ GenerateNoKey
    \/ GenerateRetrievalFails
    \/ GenerateChatFails
    \/ GenerateOk
    \/ SummaryRetrieves
    \/ Respond

Spec == Init /\ [][Next]_vars

----------------------------------------------------------------------------
(* The ingest_guides command: Command.handle and the page loop of          *)
(* _process_pdf_page_by_page.  What a page holds is settled by the page    *)
(* pipeline above; here a page is blank, or gives PageChunks chunks, or    *)
(* one of its steps raises.                                                *)

MaxFiles == 2
MaxPages == 2
MaxPageChunks == 2

PdfExt == <<".", "p", "d", "f">>

TurkeyPdfPdf == TurkeyPdf \o PdfExt

\* The names assets_dir.glob("*.pdf") may find, in the order it lists them.
AssetNames == <<TurkeyPdf, TurkeyPdfPdf, AmericaPdf, EuropePdf>>

\* the k-th smallest element of a set of numbers
Nth(S, k) == CHOOSE x \in S : Cardinality({y \in S : y < x}) = k - 1

\* pdf_files: between one and MaxFiles distinct names
FileLists ==
    { [k \in 1..Cardinality(S) |-> AssetNames[Nth(S, k)]] :
        S \in {T \in SUBSET (1..Len(AssetNames)) :
                  T # {} /\ Cardinality(T) <= MaxFiles} }

\* str.replace(old, ''): every occurrence of old is removed, left to right
RECURSIVE RemoveAll(_, _)
RemoveAll(w, old) ==
    IF Len(w) < Len(old) THEN w
    ELSE IF Matches(w, 0, old)
         THEN RemoveAll(SubSeq(w, Len(old) + 1, Len(w)), old)
         ELSE <<w[1]>> \o RemoveAll(Tail(w), old)

DigitChars == <<"0", "1", "2", "3", "4", "5", "6", "7", "8", "9">>

\* str(n) for n >= 0
RECURSIVE Str(_)
Str(n) == IF n < 10 THEN <<DigitChars[n + 1]>>
          ELSE Str(n \div 10) \o <<DigitChars[(n % 10) + 1]>>

\* f"{n:02d}"
Pad2(n) == IF n < 10 THEN <<"0">> \o Str(n) ELSE Str(n)

\* f"{doc_id.replace('.pdf', '')}_{page_num + 1}_{chunk_idx:02d}"
ChunkId(doc_id, page, chunk_idx) ==
    RemoveAll(doc_id, PdfExt) \o <<"_">> \o Str(page + 1) \o <<"_">> \o Pad2(chunk_idx)

\* total_pages = self._get_page_count(pdf_path)
PageCount(doc_id) == MaxPages

\* len(page_chunks) of a page that is not blank
PageChunks == MaxPageChunks

\* the metadatas of one page's chunks, chunk_idx = 0, 1, ...
PageMetadatas(doc_id, page) ==
    [k \in 1..PageChunks |->
        [doc_id |-> doc_id, page |-> page + 1, chunk_id |-> ChunkId(doc_id, page, k - 1)]]

\* what may raise while a file is processed
FailureKinds == {"extract", "embed", "store"}

\* except Exception as e: around the processing of one file
HandleCatchesExtraction(kind) == kind = "extract"

HandleCatches(kind) == kind \in FailureKinds

\* an exception leaves _process_pdf_page_by_page: nothing in the page loop
\* catches it, the try of handle does
FileRaises(kind) ==
    /\ failed' = failed \cup {file_idx}
    /\ ing_pc' = IF HandleCatches(kind) THEN "files" ELSE "aborted"
    /\ UNCHANGED <<reset, backend_ids, pdf_files, file_idx, page_num, added, total_chunks, stored,
                   attempted>>

\* for pdf_path in pdf_files: the next file
NextFile ==
    /\ ing_pc = "files"
    /\ file_idx < Len(pdf_files)
    /\ file_idx' = file_idx + 1
    /\ attempted' = Append(attempted, pdf_files[file_idx + 1])
    /\ page_num' = 0
    /\ added' = 0
    /\ ing_pc' = "open"
    /\ UNCHANGED <<reset, backend_ids, pdf_files, total_chunks, stored, failed, pages_tried>>
    /\ UNCHANGED <<chunkVars, parseVars, ragVars, serviceVars, ruleVars>>

\* _get_page_count succeeds
OpenPdf ==
    /\ ing_pc = "open"
    /\ ing_pc' = "page"
    /\ UNCHANGED <<reset, backend_ids, pdf_files, file_idx, page_num, added, total_chunks, stored,
                   attempted, failed, pages_tried>>
    /\ UNCHANGED <<chunkVars, parseVars, ragVars, serviceVars, ruleVars>>

\* _get_page_count raises: the file cannot be opened
OpenPdfRaises ==
    /\ ing_pc = "open"
    /\ FileRaises("extract")
    /\ UNCHANGED pages_tried
    /\ UNCHANGED <<chunkVars, parseVars, ragVars, serviceVars, ruleVars>>

\* a page without text, or whose text gives no chunk: continue
PageBlank ==
    /\ ing_pc = "page"
    /\ page_num < PageCount(pdf_files[file_idx])
    /\ pages_tried' = pages_tried \cup {<<file_idx, page_num>>}
    /\ page_num' = page_num + 1
    /\ UNCHANGED <<reset, backend_ids, pdf_files, file_idx, added, total_chunks, stored, attempted,
                   failed, ing_pc>>
    /\ UNCHANGED <<chunkVars, parseVars, ragVars, serviceVars, ruleVars>>

\* a page is extracted, cleaned, chunked and its chunks are stored
PageStored ==
    /\ ing_pc = "page"
    /\ page_num < PageCount(pdf_files[file_idx])
    /\ pages_tried' = pages_tried \cup {<<file_idx, page_num>>}
    /\ stored' = stored \o PageMetadatas(pdf_files[file_idx], page_num)
    /\ added' = added + PageChunks
    /\ page_num' = page_num + 1
    /\ backend_ids' = backend_ids
            \cup {PageMetadatas(pdf_files[file_idx], page_num)[k].chunk_id : k \in 1..PageChunks}
    /\ UNCHANGED <<reset, pdf_files, file_idx, total_chunks, attempted, failed, ing_pc>>
    /\ UNCHANGED <<chunkVars, parseVars, ragVars, serviceVars, ruleVars>>

\* extraction, the embedding call or the write of a page raises
PageRaises ==
    /\ ing_pc = "page"
    /\ page_num < PageCount(pdf_files[file_idx])
    /\ pages_tried' = pages_tried \cup {<<file_idx, page_num>>}
    /\ \E kind \in FailureKinds : FileRaises(kind)
    /\ UNCHANGED <<chunkVars, parseVars, ragVars, serviceVars, ruleVars>>

\* return added; total_chunks += added
FileDone ==
    /\ ing_pc = "page"
    /\ page_num = PageCount(pdf_files[file_idx])
    /\ total_chunks' = total_chunks + added
    /\ ing_pc' = "files"
    /\ UNCHANGED <<reset, backend_ids, pdf_files, file_idx, page_num, added, stored, attempted,
                   failed, pages_tried>>
    /\ UNCHANGED <<chunkVars, parseVars, ragVars, serviceVars, ruleVars>>

\* "Ingestion complete. Total chunks: ..."
WriteSummary ==
    /\ ing_pc = "files"
    /\ file_idx = Len(pdf_files)
    /\ ing_pc' = "summary"
    /\ UNCHANGED <<reset, backend_ids, pdf_files, file_idx, page_num, added, total_chunks, stored,
                   attempted, failed, pages_tried>>
    /\ UNCHANGED <<chunkVars, parseVars, ragVars, serviceVars, ruleVars>>

\* count = vectorstore.count(), outside every try
FinalCount ==
    /\ ing_pc = "summary"
    /\ \E backend_ok \in BOOLEAN :
          ing_pc' = IF backend_ok THEN "done" ELSE "count_raised"
    /\ UNCHANGED <<reset, backend_ids, pdf_files, file_idx, page_num, added, total_chunks, stored,
                   attempted, failed, pages_tried>>
    /\ UNCHANGED <<chunkVars, parseVars, ragVars, serviceVars, ruleVars>>

\* the chunk ids an earlier run over the same files left in the collection
EarlierRunIds(files) ==
    { ChunkId(files[f], p, k - 1) :
        f \in 1..Len(files), p \in 0..(MaxPages - 1), k \in 1..MaxPageChunks }

\* vectorstore.delete_collection(): client.delete_collection raises or not,
\* and except Exception: pass
DeleteCollection(ids, delete_ok) == IF delete_ok THEN {} ELSE ids

\* if options['reset']: vectorstore.delete_collection()
ResetStore ==
    /\ ing_pc = "start"
    /\ reset
    /\ \E delete_ok \in BOOLEAN :
          backend_ids' = DeleteCollection(backend_ids, delete_ok)
    /\ ing_pc' = "files"
    /\ UNCHANGED <<reset, pdf_files, file_idx, page_num, added, total_chunks, stored,
                   attempted, failed, pages_tried>>
    /\ UNCHANGED <<chunkVars, parseVars, ragVars, serviceVars, ruleVars>>

\* the command was started without --reset
KeepStore ==
    /\ ing_pc = "start"
    /\ ~reset
    /\ ing_pc' = "files"
    /\ UNCHANGED <<reset, backend_ids, pdf_files, file_idx, page_num, added,
                   total_chunks, stored, attempted, failed, pages_tried>>
    /\ UNCHANGED <<chunkVars, parseVars, ragVars, serviceVars, ruleVars>>

InitIngest ==
    /\ pdf_files \in FileLists
    /\ reset \in BOOLEAN
    /\ backend_ids \in {{}, EarlierRunIds(pdf_files)}
    /\ file_idx = 0 /\ page_num = 0 /\ added = 0 /\ total_chunks = 0
    /\ stored = <<>> /\ attempted = <<>> /\ failed = {} /\ pages_tried = {}
    /\ ing_pc = "start"
    /\ ChunkIdle
    /\ ParseIdle
    /\ RagIdle
    /\ ServiceIdle
    /\ RulesIdle

NextIngest ==
    \/ ResetStore
    \/ KeepStore
    \/ NextFile
    \/ OpenPdf
    \/ OpenPdfRaises
    \/ PageBlank
    \/ PageStored
    \/ PageRaises
    \/ FileDone
    \/ WriteSummary
    \/ FinalCount

SpecIngest == InitIngest /\ [][NextIngest]_vars

----------------------------------------------------------------------------
(* The substring aliases of retrieve_guideline_chunks over file names      *)
(* other than the three of the repository: doc_id is whatever name the     *)
(* PDF in the assets directory has.                                        *)

MaxNameParts == 2

\* the words a file name is made of
NameParts ==
    << <<"t", "u", "r", "k", "e", "y">>, <<"a", "c", "r">>, <<"A", "C", "R">>,
       <<"a", "m", "e", "r", "i", "c", "a">>, <<"e", "u">>,
       <<"e", "u", "r", "o", "p", "e">>, <<"x">> >>

\* the words joined by "_"
RECURSIVE JoinParts(_)
JoinParts(ps) ==
    IF Len(ps) = 1 THEN NameParts[ps[1]]
    ELSE NameParts[ps[1]] \o <<"_">> \o JoinParts(Tail(ps))

\* pdf_path.name of a file of the assets directory
FileNames ==
    { JoinParts(ps) \o PdfExt :
        ps \in UNION { [1..k -> 1..Len(NameParts)] : k \in 1..MaxNameParts } }

\* the first page of a document is ingested under the name of its file
AddNamedDocument ==
    /\ last_call = NoCall
    /\ api_key
    /\ collection = {}
    /\ \E name \in FileNames, dist \in {d \in Distances : PassesThreshold(d)} :
          collection' = {[doc_id |-> name, page |-> 1, dist |-> dist]}
    /\ UNCHANGED <<api_key, last_call>>
    /\ UNCHANGED <<chunkVars, parseVars, ingestVars, serviceVars, ruleVars>>

InitAlias ==
    /\ api_key = TRUE
    /\ collection = {}
    /\ last_call = NoCall
    /\ ChunkIdle
    /\ ParseIdle
    /\ IngestIdle
    /\ ServiceIdle
    /\ RulesIdle

NextAlias ==
    \/ AddNamedDocument
    \/ GenerateOk
    \/ Respond

SpecAlias == InitAlias /\ [][NextAlias]_vars

----------------------------------------------------------------------------
(* The process-wide store handle (get_vectorstore), the probes of the      *)
(* store (is_ready, count), get_embeddings and the entry of                 *)
(* retrieve_chunks, called by the request threads of one process.  Each    *)
(* thread's record counts what its current call has done.                  *)

MaxThreads == 2

Threads == 1..MaxThreads

IdleCall ==
    [op |-> "none", pc |-> "idle", handle |-> 0, n_texts |-> 0, clients |-> 0,
     embed_calls |-> 0, store_calls |-> 0, constructs |-> 0, outcome |-> "none",
     ready |-> FALSE, count |-> 0]

\* the lists of texts get_embeddings is called with
TextLists == {<<>>, <<"a", "a">>}

\* client.embeddings.create(...): one request, whether or not it succeeds
EmbeddingCallsRetried(service_ok) == IF service_ok THEN 1 ELSE 2

EmbeddingCalls(service_ok) == 1

\* get_embeddings: the key check, the client, the request
GetEmbeddings(key, service_ok) ==
    IF ~key
    THEN [clients |-> 0, embed_calls |-> 0, outcome |-> "ValueError"]
    ELSE [clients |-> 1, embed_calls |-> EmbeddingCalls(service_ok),
          outcome |-> IF service_ok THEN "returned" ELSE "service_error"]

\* if not settings.OPENAI_API_KEY: return []
ReturnsEarlyNever(key) == FALSE

ReturnsEarly(key) == ~key

\* where a call goes on once it holds the store handle
AfterHandle(op) == IF op = "get_vectorstore" THEN "done" ELSE "query"

Finish(c) == IF c.pc = "done" /\ c.outcome = "none"
             THEN [c EXCEPT !.outcome = "returned"] ELSE c

\* a thread calls get_vectorstore()
CallGetVectorstore(t) ==
    /\ calls[t].pc = "idle"
    /\ calls' = [calls EXCEPT ![t] = [IdleCall EXCEPT !.op = "get_vectorstore",
                                                      !.pc = "check"]]
    /\ UNCHANGED <<vectorstore_instance, constructed, store_count>>
    /\ UNCHANGED <<chunkVars, parseVars, ragVars, ingestVars, ruleVars>>

\* a thread calls retrieve_chunks(...)
CallRetrieveChunks(t) ==
    /\ calls[t].pc = "idle"
    /\ calls' = [calls EXCEPT ![t] =
          IF ReturnsEarly(api_key)
          THEN [IdleCall EXCEPT !.op = "retrieve_chunks", !.pc = "done",
                                !.outcome = "returned_empty"]
          ELSE [IdleCall EXCEPT !.op = "retrieve_chunks", !.pc = "check"]]
    /\ UNCHANGED <<vectorstore_instance, constructed, store_count>>
    /\ UNCHANGED <<chunkVars, parseVars, ragVars, ingestVars, ruleVars>>

\* get_vectorstore: if _vectorstore_instance is None
CheckInstance(t) ==
    /\ calls[t].pc = "check"
    /\ calls' = [calls EXCEPT ![t] =
          IF vectorstore_instance = 0
          THEN [@ EXCEPT !.pc = "construct"]
          ELSE Finish([@ EXCEPT !.handle = vectorstore_instance,
                                !.pc = AfterHandle(calls[t].op)])]
    /\ UNCHANGED <<vectorstore_instance, constructed, store_count>>
    /\ UNCHANGED <<chunkVars, parseVars, ragVars, ingestVars, ruleVars>>

\* get_vectorstore: _vectorstore_instance = VectorStore(); return it
ConstructInstance(t) ==
    /\ calls[t].pc = "construct"
    /\ constructed' = constructed + 1
    /\ vectorstore_instance' = constructed + 1
    /\ calls' = [calls EXCEPT ![t] =
          Finish([@ EXCEPT !.handle = constructed + 1, !.constructs = @ + 1,
                           !.pc = AfterHandle(calls[t].op)])]
    /\ UNCHANGED store_count
    /\ UNCHANGED <<chunkVars, parseVars, ragVars, ingestVars, ruleVars>>

\* vectorstore.query: get_embeddings([query_text]), then collection.query
QueryStore(t) ==
    /\ calls[t].pc = "query"
    /\ \E service_ok \in BOOLEAN, backend_ok \in BOOLEAN :
          LET emb == GetEmbeddings(api_key, service_ok)
              queried == emb.outcome = "returned"
          IN  calls' = [calls EXCEPT ![t] =
                [@ EXCEPT !.pc = "done",
                          !.n_texts = 1,
                          !.clients = emb.clients,
                          !.embed_calls = emb.embed_calls,
                          !.store_calls = IF queried THEN 1 ELSE 0,
                          !.outcome = IF ~queried THEN emb.outcome
                                      ELSE IF backend_ok THEN "returned"
                                      ELSE "raised"]]
    /\ UNCHANGED <<vectorstore_instance, constructed, store_count>>
    /\ UNCHANGED <<chunkVars, parseVars, ragVars, ingestVars, ruleVars>>

\* a thread calls get_embeddings(texts)
CallGetEmbeddings(t) ==
    /\ calls[t].pc = "idle"
    /\ \E texts \in TextLists, service_ok \in BOOLEAN :
          LET emb == GetEmbeddings(api_key, service_ok)
          IN  calls' = [calls EXCEPT ![t] =
                [IdleCall EXCEPT !.op = "get_embeddings", !.pc = "done",
                                 !.n_texts = Len(texts),
                                 !.clients = emb.clients,
                                 !.embed_calls = emb.embed_calls,
                                 !.outcome = emb.outcome]]
    /\ UNCHANGED <<vectorstore_instance, constructed, store_count>>
    /\ UNCHANGED <<chunkVars, parseVars, ragVars, ingestVars, ruleVars>>

\* VectorStore.is_ready() on the handle: try: count > 0 except: False
CallIsReady(t) ==
    /\ calls[t].pc = "idle"
    /\ vectorstore_instance # 0
    /\ \E backend_ok \in BOOLEAN :
          calls' = [calls EXCEPT ![t] =
            [IdleCall EXCEPT !.op = "is_ready", !.pc = "done",
                             !.handle = vectorstore_instance,
                             !.store_calls = 1,
                             !.outcome = IF backend_ok /\ store_count > 0
                                         THEN "true" ELSE "false"]]
    /\ UNCHANGED <<vectorstore_instance, constructed, store_count>>
    /\ UNCHANGED <<chunkVars, parseVars, ragVars, ingestVars, ruleVars>>

\* VectorStore.count() on the handle: return self.collection.count()
CallCount(t) ==
    /\ calls[t].pc = "idle"
    /\ vectorstore_instance # 0
    /\ \E backend_ok \in BOOLEAN :
          calls' = [calls EXCEPT ![t] =
            [IdleCall EXCEPT !.op = "count", !.pc = "done",
                             !.handle = vectorstore_instance,
                             !.store_calls = 1,
                             !.outcome = IF ~backend_ok THEN "raised"
                                         ELSE IF store_count > 0 THEN "positive"
                                         ELSE "zero"]]
    /\ UNCHANGED <<vectorstore_instance, constructed, store_count>>
    /\ UNCHANGED <<chunkVars, parseVars, ragVars, ingestVars, ruleVars>>

\* except Exception: pass, then Response(..., status=200)
HealthOutcomeUncaught(raised) == IF raised THEN "raised" ELSE "healthy"

HealthOutcome(raised) == "healthy"

\* GET /api/health/: the response defaults, then the read of
\* _vectorstore_instance; None skips the probes
CallHealth(t) ==
    /\ calls[t].pc = "idle"
    /\ calls' = [calls EXCEPT ![t] =
          IF vectorstore_instance = 0
          THEN [IdleCall EXCEPT !.op = "health", !.pc = "done",
                                !.outcome = HealthOutcome(FALSE)]
          ELSE [IdleCall EXCEPT !.op = "health", !.pc = "health_ready",
                                !.handle = vectorstore_instance]]
    /\ UNCHANGED <<vectorstore_instance, constructed, store_count>>
    /\ UNCHANGED <<chunkVars, parseVars, ragVars, ingestVars, ruleVars>>

\* response_data['vectorstore_ready'] = _vectorstore_instance.is_ready()
HealthIsReady(t) ==
    /\ calls[t].pc = "health_ready"
    /\ \E backend_ok \in BOOLEAN :
          calls' = [calls EXCEPT ![t] =
            [@ EXCEPT !.pc = "health_count",
                      !.store_calls = @ + 1,
                      !.ready = backend_ok /\ store_count > 0]]
    /\ UNCHANGED <<vectorstore_instance, constructed, store_count>>
    /\ UNCHANGED <<chunkVars, parseVars, ragVars, ingestVars, ruleVars>>

\* response_data['vectorstore_count'] = _vectorstore_instance.count(); an
\* exception leaves the count at its default
HealthCount(t) ==
    /\ calls[t].pc = "health_count"
    /\ \E backend_ok \in BOOLEAN :
          calls' = [calls EXCEPT ![t] =
            [@ EXCEPT !.pc = "done",
                      !.store_calls = @ + 1,
                      !.count = IF backend_ok THEN store_count ELSE @,
                      !.outcome = HealthOutcome(~backend_ok)]]
    /\ UNCHANGED <<vectorstore_instance, constructed, store_count>>
    /\ UNCHANGED <<chunkVars, parseVars, ragVars, ingestVars, ruleVars>>

\* the ingestion command, another process on the same persistent store,
\* adds the chunks of a page
IngestionWrites ==
    /\ store_count = 0
    /\ store_count' = MaxPageChunks
    /\ UNCHANGED <<vectorstore_instance, constructed, calls>>
    /\ UNCHANGED <<chunkVars, parseVars, ragVars, ingestVars, ruleVars>>

\* the call is over; the thread is free for its next call
Return(t) ==
    /\ calls[t].pc = "done"
    /\ calls' = [calls EXCEPT ![t] = IdleCall]
    /\ UNCHANGED <<vectorstore_instance, constructed, store_count>>
    /\ UNCHANGED <<chunkVars, parseVars, ragVars, ingestVars, ruleVars>>

InitService ==
    /\ api_key \in BOOLEAN
    /\ collection = {}
    /\ last_call = NoCall
    /\ vectorstore_instance = 0
    /\ constructed = 0
    /\ store_count \in {0, MaxPageChunks}
    /\ calls = [t \in Threads |-> IdleCall]
    /\ ChunkIdle
    /\ ParseIdle
    /\ IngestIdle
    /\ RulesIdle

NextService ==
    \/ \E t \in Threads :
          \/ CallGetVectorstore(t)
          \/ CallRetrieveChunks(t)
          \/ CheckInstance(t)
          \/ ConstructInstance(t)
          \/ QueryStore(t)
          \/ CallGetEmbeddings(t)
          \/ CallIsReady(t)
          \/ CallCount(t)
          \/ CallHealth(t)
          \/ HealthIsReady(t)
          \/ HealthCount(t)
          \/ Return(t)
    \/ IngestionWrites

SpecService == InitService /\ [][NextService]_vars

----------------------------------------------------------------------------
(* The rules: calculate_acr_tirads, classify_eu_tirads (classification.py) *)
(* and get_recommendation (recommendations.py).  A findings dictionary is   *)
(* a record; Absent is the value of a key the dictionary does not hold.     *)
(* Sizes are in half millimetres.                                           *)

MaxDimensionMm == 26

\* half millimetres per millimetre
PerMm == 2

Absent == "<absent>"

\* a request without max_dimension_mm
NoDimension == 0 - 1

\* dict.get(key, default) on a table
Get(table, key, default) == IF key \in DOMAIN table THEN table[key] ELSE default

\* findings.get(field, default)
Finding(findings, field, default) ==
    IF findings[field] = Absent THEN default ELSE findings[field]

COMPOSITION_POINTS ==
    [cystic |-> 0, spongiform |-> 0, mixed_cystic_solid |-> 1, solid |-> 2,
     almost_solid |-> 2]

ECHOGENICITY_POINTS ==
    [anechoic |-> 0, hyperechoic |-> 1, isoechoic |-> 1, hypoechoic |-> 2,
     very_hypoechoic |-> 3]

SHAPE_POINTS == [wider_than_tall |-> 0, taller_than_wide |-> 3]

MARGIN_POINTS ==
    [smooth |-> 0, ill_defined |-> 0, lobulated |-> 2, irregular |-> 2,
     extrathyroidal_extension |-> 3]

ECHOGENIC_FOCI_POINTS ==
    [none |-> 0, large_comet_tail |-> 0, macrocalcifications |-> 1,
     peripheral_calcifications |-> 2, punctate_echogenic_foci |-> 3]

TR_LEVEL_DESCRIPTIONS ==
    [TR1 |-> "Benign", TR2 |-> "Not suspicious", TR3 |-> "Mildly suspicious",
     TR4 |-> "Moderately suspicious", TR5 |-> "Highly suspicious"]

\* the choices of NoduleEvaluationRequestSerializer
SerializerChoices ==
    [composition |-> {"cystic", "spongiform", "mixed_cystic_solid", "solid",
                      "almost_solid"},
     echogenicity |-> {"anechoic", "hyperechoic", "isoechoic", "hypoechoic",
                       "very_hypoechoic", "moderately_hypoechoic",
                       "markedly_hypoechoic"},
     shape |-> {"wider_than_tall", "taller_than_wide"},
     margin |-> {"smooth", "ill_defined", "lobulated", "irregular",
                 "microlobulated", "extrathyroidal_extension"},
     echogenic_foci |-> {"none", "large_comet_tail", "macrocalcifications",
                         "peripheral_calcifications", "punctate_echogenic_foci",
                         "microcalcifications"}]

Fields == DOMAIN SerializerChoices

\* the findings dictionaries: every key holds a choice or is absent
FindingsInputs ==
    [composition : SerializerChoices.composition \cup {Absent},
     echogenicity : SerializerChoices.echogenicity \cup {Absent},
     shape : SerializerChoices.shape \cup {Absent},
     margin : SerializerChoices.margin \cup {Absent},
     echogenic_foci : SerializerChoices.echogenic_foci \cup {Absent}]

\* get_tr_level
GetTrLevelTR3From2(points) ==
    IF points = 0 THEN "TR1"
    ELSE IF points < 2 THEN "TR2"
    ELSE IF points <= 3 THEN "TR3"
    ELSE IF points <= 6 THEN "TR4"
    ELSE "TR5"

GetTrLevel(points) ==
    IF points = 0 THEN "TR1"
    ELSE IF points <= 2 THEN "TR2"
    ELSE IF points = 3 THEN "TR3"
    ELSE IF points <= 6 THEN "TR4"
    ELSE "TR5"

\* point_breakdown[field] = {'value': ..., 'points': ...}
Scored(findings, field, default, table) ==
    LET value == Finding(findings, field, default)
    IN  [value |-> value, points |-> Get(table, value, 0)]

\* calculate_acr_tirads
CalculateAcrTirads(findings) ==
    LET point_breakdown ==
            [composition |-> Scored(findings, "composition", "solid", COMPOSITION_POINTS),
             echogenicity |-> Scored(findings, "echogenicity", "isoechoic",
                                     ECHOGENICITY_POINTS),
             shape |-> Scored(findings, "shape", "wider_than_tall", SHAPE_POINTS),
             margin |-> Scored(findings, "margin", "smooth", MARGIN_POINTS),
             echogenic_foci |-> Scored(findings, "echogenic_foci", "none",
                                       ECHOGENIC_FOCI_POINTS)]
        total_points ==
            point_breakdown.composition.points + point_breakdown.echogenicity.points
                + point_breakdown.shape.points + point_breakdown.margin.points
                + point_breakdown.echogenic_foci.points
        tr_level == GetTrLevel(total_points)
    IN  [points |-> total_points, tr_level |-> tr_level,
         description |-> TR_LEVEL_DESCRIPTIONS[tr_level],
         point_breakdown |-> point_breakdown]

EU_LEVEL_INFO ==
    [e \in {"EU-TIRADS 1", "EU-TIRADS 2", "EU-TIRADS 3", "EU-TIRADS 4", "EU-TIRADS 5"} |->
        CASE e = "EU-TIRADS 1" -> [risk_category |-> "Normal", malignancy_risk |-> "N/A"]
          [] e = "EU-TIRADS 2" -> [risk_category |-> "Benign", malignancy_risk |-> "~0%"]
          [] e = "EU-TIRADS 3" -> [risk_category |-> "Low risk", malignancy_risk |-> "2-4%"]
          [] e = "EU-TIRADS 4" -> [risk_category |-> "Intermediate risk",
                                   malignancy_risk |-> "6-17%"]
          [] e = "EU-TIRADS 5" -> [risk_category |-> "High risk",
                                   malignancy_risk |-> "26-87%"]]

\* f'{margin.capitalize()} margin'
MarginFeature(margin) ==
    IF margin = "irregular" THEN "Irregular margin" ELSE "Microlobulated margin"

\* the features appended before the level is chosen
HighSuspiciousFeatures(findings) ==
    (IF Finding(findings, "shape", "wider_than_tall") = "taller_than_wide"
        THEN <<"Taller-than-wide shape">> ELSE <<>>)
    \o (IF Finding(findings, "margin", "smooth") \in {"irregular", "microlobulated"}
           THEN <<MarginFeature(Finding(findings, "margin", "smooth"))>> ELSE <<>>)
    \o (IF Finding(findings, "echogenic_foci", "none")
              \in {"microcalcifications", "punctate_echogenic_foci"}
           THEN <<"Microcalcifications">> ELSE <<>>)
    \o (IF Finding(findings, "echogenicity", "isoechoic")
              \in {"very_hypoechoic", "markedly_hypoechoic"}
           THEN <<"Marked hypoechogenicity">> ELSE <<>>)

\* classify_eu_tirads; flags holds is_simple_cyst, is_spongiform, has_adenopathy
ClassifyEuTirads(findings, flags) ==
    LET features == HighSuspiciousFeatures(findings)
        suspicious_count == Len(features)
        echogenicity == Finding(findings, "echogenicity", "isoechoic")
        composition == Finding(findings, "composition", "solid")
        benign == \/ flags.is_simple_cyst
                  \/ flags.is_spongiform
                  \/ composition \in {"cystic", "spongiform"}
        eu_level ==
            IF benign THEN "EU-TIRADS 2"
            ELSE IF flags.has_adenopathy THEN "EU-TIRADS 5"
            ELSE IF suspicious_count >= 1 THEN "EU-TIRADS 5"
            ELSE IF echogenicity \in {"hypoechoic", "moderately_hypoechoic"}
                 THEN "EU-TIRADS 4"
            ELSE "EU-TIRADS 3"
    IN  [eu_level |-> eu_level,
         risk_category |-> EU_LEVEL_INFO[eu_level].risk_category,
         malignancy_risk |-> EU_LEVEL_INFO[eu_level].malignancy_risk,
         high_suspicious_features |->
            IF ~benign /\ flags.has_adenopathy
            THEN Append(features, "Suspicious lymphadenopathy") ELSE features]

\* SIZE_THRESHOLDS in mm: (follow_up_threshold, fna_threshold)
SIZE_THRESHOLDS ==
    [TR1 |-> <<"None", "None">>, TR2 |-> <<"None", "None">>, TR3 |-> <<15, 25>>,
     TR4 |-> <<10, 15>>, TR5 |-> <<5, 10>>]

\* the 'en' labels
ACTION_LABELS ==
    [no_action |-> [en |-> "No Action Required"],
     follow_up |-> [en |-> "Follow-up Recommended"],
     fna |-> [en |-> "FNA (Fine Needle Aspiration) Biopsy"]]

\* max_dimension >= threshold, the size in half millimetres
AboveThreshold(max_dimension, threshold_mm) == max_dimension > threshold_mm * PerMm

AtLeast(max_dimension, threshold_mm) == max_dimension >= threshold_mm * PerMm

\* get_recommendation: tr_level and max_dimension_mm may be absent
GetRecommendation(input) ==
    LET tr_level == IF input.tr_level = Absent THEN "TR3" ELSE input.tr_level
        max_dimension == IF input.max_dimension = NoDimension THEN 0 ELSE input.max_dimension
        thresholds == Get(SIZE_THRESHOLDS, tr_level, <<10, 15>>)
        action ==
            IF tr_level \in {"TR1", "TR2"} THEN "no_action"
            ELSE IF AtLeast(max_dimension, thresholds[2]) THEN "fna"
            ELSE IF AtLeast(max_dimension, thresholds[1]) THEN "follow_up"
            ELSE "no_action"
    IN  [action |-> action, label_en |-> ACTION_LABELS[action].en,
         risk_note |-> input.clinical_risk_factors /\ action # "fna"]

TrLevels == {"TR1", "TR2", "TR3", "TR4", "TR5"}

\* the inputs of get_recommendation: a known, an unknown or no TR level,
\* a size up to MaxDimensionMm in steps of half a millimetre or no size
RecommendationInputs ==
    [tr_level : TrLevels \cup {"TR9", Absent},
     max_dimension : (0..(MaxDimensionMm * PerMm)) \cup {NoDimension},
     clinical_risk_factors : BOOLEAN]

EuFlags == [is_simple_cyst : BOOLEAN, is_spongiform : BOOLEAN, has_adenopathy : BOOLEAN]

CallCalculateAcrTirads ==
    /\ rule_call.fn = "none"
    /\ \E findings \in FindingsInputs :
          rule_call' = [fn |-> "calculate_acr_tirads", findings |-> findings,
                        result |-> CalculateAcrTirads(findings)]
    /\ UNCHANGED <<chunkVars, parseVars, ragVars, ingestVars, serviceVars>>

CallClassifyEuTirads ==
    /\ rule_call.fn = "none"
    /\ \E findings \in FindingsInputs, flags \in EuFlags :
          rule_call' = [fn |-> "classify_eu_tirads", findings |-> findings,
                        flags |-> flags,
                        result |-> ClassifyEuTirads(findings, flags)]
    /\ UNCHANGED <<chunkVars, parseVars, ragVars, ingestVars, serviceVars>>

CallGetRecommendation ==
    /\ rule_call.fn = "none"
    /\ \E input \in RecommendationInputs :
          rule_call' = [fn |-> "get_recommendation", input |-> input,
                        result |-> GetRecommendation(input)]
    /\ UNCHANGED <<chunkVars, parseVars, ragVars, ingestVars, serviceVars>>

InitRules ==
    /\ RulesIdle
    /\ ChunkIdle
    /\ ParseIdle
    /\ RagIdle
    /\ IngestIdle
    /\ ServiceIdle

NextRules ==
    \/ CallCalculateAcrTirads
    \/ CallClassifyEuTirads
    \/ CallGetRecommendation

SpecRules == InitRules /\ [][NextRules]_vars

----------------------------------------------------------------------------
(* Properties of the token chunker *)

\* C4: _chunk_text terminates for every token sequence whenever
\* chunk_size >= 1 and 0 <= overlap < chunk_size.  The window start strictly
\* increases on every iteration that does not break, so the number of
\* iterations made so far never exceeds start, which stays below the token
\* count; and the loop has its next iteration to take (the iteration cap
\* of the model is never what stops it).
C4_ChunkTextTerminates ==
    (pc = "loop" /\ ValidParams) =>
        /\ Len(windows) <= start
        /\ start < Len(tokens)
        /\ Len(windows) < MaxIter

\* A call with valid parameters that went through at least two windows.
C4_Witness ==
    pc = "done" /\ ValidParams /\ chunk_overlap > 0 /\ Len(windows) >= 2

\* C5: parameters violating chunk_size >= 1, 0 <= overlap < chunk_size are
\* rejected or clamped before the window loop is entered.
C5_ParamsCheckedBeforeLoop == pc = "loop" => ValidParams

\* The number of windows the loop is to visit: the first window whose end
\* reaches the last token is the last one.
ExpectedWindows(n, size, overlap) ==
    CHOOSE k \in 1..n :
        /\ (k - 1) * (size - overlap) + size >= n
        /\ \A j \in 1..(k - 1) : (j - 1) * (size - overlap) + size < n

ExpectedWindow(i, n, size, overlap) ==
    <<(i - 1) * (size - overlap), Min((i - 1) * (size - overlap) + size, n)>>

LongText == pc = "done" /\ ValidParams /\ Len(tokens) > chunk_size

\* The visited windows are the arithmetic progression of the claim, they
\* cover every token, consecutive ones share exactly overlap tokens and each
\* brings a new token.
WindowsAsClaimed ==
    LET n == Len(tokens)
        w == ExpectedWindows(n, chunk_size, chunk_overlap)
    IN  /\ Len(windows) = w
        /\ \A i \in 1..w :
              windows[i] = ExpectedWindow(i, n, chunk_size, chunk_overlap)
        /\ windows[w][2] = n
        /\ \A i \in 1..(w - 1) : windows[i][2] < n
        /\ \A t \in 0..(n - 1) :
              \E i \in 1..w : windows[i][1] <= t /\ t < windows[i][2]
        /\ \A i \in 1..(w - 1) : windows[i][2] - windows[i + 1][1] = chunk_overlap
        /\ \A i \in 2..w : windows[i][2] > windows[i - 1][2]
        /\ (chunk_size = 800 /\ chunk_overlap = 120 /\ n = 1000)
              => windows = << <<0, 800>>, <<680, 1000>> >>

\* C6 as stated: every window of the progression is emitted, so the i-th
\* returned chunk is the i-th window.
C6_EveryWindowEmitted ==
    LongText =>
        /\ WindowsAsClaimed
        /\ Len(chunks) = Len(windows)
        /\ \A i \in 1..Len(windows) :
              chunks[i] = WindowText(tokens, windows[i][1], windows[i][2])

\* C6 (amended): the loop visits the windows of the progression, and the
\* returned chunks are, in order, the trimmed texts of the visited windows
\* that are not blank; a window of whitespace only is visited, not emitted.
C6_WindowsVisitedNonBlankEmitted ==
    LongText =>
        /\ WindowsAsClaimed
        /\ chunks = SelectSeq([i \in 1..Len(windows) |->
                                 WindowText(tokens, windows[i][1], windows[i][2])],
                              LAMBDA c : c # <<>>)

\* A text chunked with a positive overlap into three windows or more, one of
\* them blank.
C6_Witness ==
    /\ LongText
    /\ chunk_overlap > 0
    /\ Len(windows) >= 3
    /\ Len(chunks) < Len(windows)

\* C7: a text whose token count is <= chunk_size comes back as exactly one
\* chunk, the cleaned page text itself, and the window loop is not entered.
C7_ShortTextIsOneChunk ==
    (pc = "done" /\ Len(tokens) <= chunk_size) =>
        /\ chunks = <<text>>
        /\ text = CleanText(page_text)
        /\ windows = <<>>

\* A text of exactly chunk_size tokens, fewer than its characters.
C7_Witness ==
    /\ pc = "done"
    /\ Len(tokens) = chunk_size
    /\ Len(tokens) < Len(text)
    /\ chunks = <<text>>

----------------------------------------------------------------------------
(* Properties of the response parser *)

\* C1: for every non-empty full_text each of the three returned sections
\* (tr, us, eu) is a non-empty string.
C1_SectionsNonEmpty ==
    (parse_pc = "returned" /\ full_text # <<>>) =>
        result.tr # <<>> /\ result.us # <<>> /\ result.eu # <<>>

AllMarkers ==
    {tr_markers[m] : m \in 1..Len(tr_markers)}
        \cup {us_markers[m] : m \in 1..Len(us_markers)}
        \cup {eu_markers[m] : m \in 1..Len(eu_markers)}

NoMarkerIn(t) == \A marker \in AllMarkers : Find(t, marker) = 0 - 1

\* C16: when the text contains none of the recognized markers, all three
\* sections equal the full input text, untrimmed.
C16_NoMarkerGivesFullText ==
    (parse_pc = "returned" /\ NoMarkerIn(full_text)) =>
        result = [tr |-> full_text, us |-> full_text, eu |-> full_text]

\* A text without markers that str.strip() would shorten.
C16_Witness ==
    /\ parse_pc = "returned"
    /\ NoMarkerIn(full_text)
    /\ Strip(full_text) # full_text
    /\ Strip(full_text) # <<>>
    /\ result.us = full_text

MarkersOf(key) ==
    IF key = "tr" THEN tr_markers ELSE IF key = "us" THEN us_markers ELSE eu_markers

\* the offset of the first character of the heading matched for a section
HeadingStart(t, key) ==
    LET markers == MarkersOf(key)
        m == CHOOSE x \in 1..Len(markers) :
                 /\ Find(t, markers[x]) # 0 - 1
                 /\ \A y \in 1..(x - 1) : Find(t, markers[y]) = 0 - 1
    IN  Find(t, markers[m])

\* the sections matched in the text, in text order, as <<key, start>>
InTextOrder(t) == SortByPosition(Positions(t))

\* the result is not the full-text fallback
Parsed ==
    /\ parse_pc = "returned"
    /\ result # [tr |-> full_text, us |-> full_text, eu |-> full_text]

\* C17: the content of a matched section that is not the last ends before
\* the first character of the following section's heading, for the "###"
\* and the bold headings alike; three "###" headed sections with one-line
\* bodies give exactly the bodies.
C17_NextHeadingExcluded ==
    /\ Parsed =>
          LET sorted == InTextOrder(full_text)
          IN  \A i \in 1..(Len(sorted) - 1) :
                 \E e \in sorted[i][2]..HeadingStart(full_text, sorted[i + 1][1]) :
                    result[sorted[i][1]] = Strip(PySlice(full_text, sorted[i][2], e))
    /\ (parse_pc = "returned" /\ full_text \in ChatOutputs) =>
          result = [tr |-> <<"a">>, us |-> <<"a">>, eu |-> <<"a">>]

----------------------------------------------------------------------------
(* Properties of retrieval and of the explanation request *)

LlmReturned == last_call.kind = "llm" /\ last_call.status = "returned"

\* the stored records of a guideline whose relevance reaches the threshold
Relevant(filter) ==
    {r \in collection : InGuideline(filter, r.doc_id) /\ PassesThreshold(r.dist)}

\* the list holds one of the most relevant records of the set
HoldsBestOf(list, recs) ==
    \E r \in recs :
        /\ \A q \in recs : r.dist <= q.dist
        /\ \E i \in 1..Len(list) : list[i].chunk_id = <<r.doc_id, r.page>>

GetsItsBest(list, filter) ==
    Relevant(filter) # {} => (list # <<>> /\ HoldsBestOf(list, Relevant(filter)))

\* C2: each guideline whose stored chunks include one with relevance >= the
\* threshold gets a non-empty list holding its most relevant chunk, however
\* many chunks of the other guidelines rank above it.
C2_EveryGuidelineGetsItsBest ==
    (LlmReturned /\ api_key) =>
        /\ GetsItsBest(last_call.chunks.tr, "turkey")
        /\ GetsItsBest(last_call.chunks.us, "acr")
        /\ GetsItsBest(last_call.chunks.eu, "eu")

\* C3: with the API key configured, no failure of an external call leaves
\* generate_llm_response as an exception: the call returns.
C3_FailureNeverEscapes ==
    (last_call.kind = "llm" /\ api_key) => last_call.status = "returned"

\* C8: retrieve_guideline_chunks returns at most top_k chunks, so the lists
\* of generate_llm_response hold at most 5 (tr), 3 (us) and 3 (eu) chunks.
C8_AtMostTopK ==
    LlmReturned =>
        /\ Len(last_call.chunks.tr) <= 5
        /\ Len(last_call.chunks.us) <= 3
        /\ Len(last_call.chunks.eu) <= 3
        /\ Len(last_call.sources) <= 11

\* More chunks of the guideline pass the relevance filter than are returned.
C8_Witness ==
    /\ LlmReturned
    /\ Cardinality(Relevant("acr")) > 3
    /\ Len(last_call.chunks.us) = 3
    /\ last_call.chunks.tr # <<>>

SummaryReturned == last_call.kind = "summary" /\ last_call.status = "returned"

IsKept(rec) ==
    \E i \in 1..Len(last_call.chunks) :
        last_call.chunks[i].chunk_id = <<rec.doc_id, rec.page>>

\* C9: retrieve_chunks keeps a match of the store exactly when 1 - distance
\* >= 0.5: distance 0.3 is kept, 0.6 is dropped, 0.5 (the boundary) is kept,
\* and every returned chunk has relevance_score >= 0.5.
C9_KeptIffRelevant ==
    SummaryReturned =>
        /\ \A m \in 1..Len(last_call.matches) :
              LET rec == last_call.matches[m]
              IN  /\ IsKept(rec) <=> (Unit - rec.dist >= 5000)
                  /\ rec.dist = 3000 => IsKept(rec)
                  /\ rec.dist = 5000 => IsKept(rec)
                  /\ rec.dist = 6000 => ~IsKept(rec)
        /\ \A i \in 1..Len(last_call.chunks) :
              /\ last_call.chunks[i].relevance_score >= 5000
              /\ \E m \in 1..Len(last_call.matches) :
                    last_call.chunks[i].chunk_id =
                        <<last_call.matches[m].doc_id, last_call.matches[m].page>>

\* The store returned a match at each of the distances 0.3, 0.5 and 0.6.
C9_Witness ==
    /\ SummaryReturned
    /\ {last_call.matches[m].dist : m \in 1..Len(last_call.matches)}
          = {3000, 5000, 6000}
    /\ Len(last_call.chunks) = 2

NonIncreasing(list) ==
    \A i \in 1..(Len(list) - 1) : list[i].relevance_score >= list[i + 1].relevance_score

\* C10: the lists retrieval returns are ordered by non-increasing relevance
\* score: the threshold filter, the guideline filter and the cap keep the
\* order in which the store returned its matches.
C10_OrderedByRelevance ==
    /\ SummaryReturned => NonIncreasing(last_call.chunks)
    /\ LlmReturned =>
          /\ NonIncreasing(last_call.chunks.tr)
          /\ NonIncreasing(last_call.chunks.us)
          /\ NonIncreasing(last_call.chunks.eu)

\* A guideline list of chunks with different scores, cut by the cap, next
\* to chunks of other guidelines and chunks below the threshold.
C10_Witness ==
    /\ LlmReturned
    /\ Len(last_call.chunks.us) = 3
    /\ last_call.chunks.us[1].relevance_score > last_call.chunks.us[3].relevance_score
    /\ Cardinality(Relevant("acr")) > 3
    /\ last_call.chunks.tr # <<>>
    /\ \E r \in collection : ~PassesThreshold(r.dist)

----------------------------------------------------------------------------
(* Properties of the ingest command *)

SummaryWritten == ing_pc \in {"summary", "done", "count_raised"}

\* C12: whichever files raise, the loop of handle starts every file of
\* pdf_files exactly once and in order, is never left by an exception, and
\* the completion summary is written only after the last file.
C12_EveryFileAttempted ==
    /\ ing_pc # "aborted"
    /\ ing_pc # "idle" => attempted = SubSeq(pdf_files, 1, file_idx)
    /\ SummaryWritten => attempted = pdf_files
    /\ (ing_pc = "files" /\ file_idx < Len(pdf_files)) => ENABLED NextFile
    /\ (ing_pc = "files" /\ file_idx = Len(pdf_files)) => ENABLED WriteSummary

\* The summary is reached after a file that raised and a later file that
\* was stored.
C12_Witness ==
    /\ SummaryWritten
    /\ \E i \in failed : \E j \in (i + 1)..Len(pdf_files) :
          /\ j \notin failed
          /\ \E k \in 1..Len(stored) : stored[k].doc_id = pdf_files[j]

\* C13: a failing page does not stop the pages after it: once a file has
\* been opened and left, every page of it has been extracted.
C13_EveryPageAttempted ==
    SummaryWritten =>
        \A f \in 1..Len(pdf_files) :
            (\E p \in 0..(PageCount(pdf_files[f]) - 1) : <<f, p>> \in pages_tried)
                => \A p \in 0..(PageCount(pdf_files[f]) - 1) : <<f, p>> \in pages_tried

\* C25: after a run with --reset the collection holds exactly the chunk ids
\* this run wrote, whatever an earlier run left and whether or not the
\* delete step met a backend error.
C25_ResetRunLeavesOnlyItsIds ==
    (SummaryWritten /\ reset) =>
        backend_ids = {stored[k].chunk_id : k \in 1..Len(stored)}

\* C26: the total the summary reports is the number of chunks the run
\* wrote to the store, whichever files failed.
C26_TotalIsChunksWritten ==
    SummaryWritten => total_chunks = Len(stored)

\* C15: no two chunks of a run get the same identifier.
C15_ChunkIdsUnique ==
    \A i, j \in 1..Len(stored) :
        i # j => stored[i].chunk_id # stored[j].chunk_id

----------------------------------------------------------------------------
(* Properties of the store handle and of the service calls *)

Done(t, op) == calls[t].op = op /\ calls[t].pc = "done"

\* C11: without an API key retrieve_chunks returns an empty list: it does
\* not raise, calls neither the embedding service nor the store, and does
\* not construct (or ask for) the store handle.
C11_NoKeyNoCalls ==
    \A t \in Threads :
        (calls[t].op = "retrieve_chunks" /\ ~api_key) =>
            /\ calls[t].pc = "done"
            /\ calls[t].outcome = "returned_empty"
            /\ calls[t].clients = 0
            /\ calls[t].embed_calls = 0
            /\ calls[t].store_calls = 0
            /\ calls[t].constructs = 0
            /\ calls[t].handle = 0

\* retrieve_chunks has returned without a key and no store handle exists.
C11_Witness ==
    /\ ~api_key
    /\ \E t \in Threads : Done(t, "retrieve_chunks")
    /\ vectorstore_instance = 0
    /\ constructed = 0

\* C14: is_ready() and count() never raise; they return false / zero when
\* the backend fails or the store was never populated.
C14_ProbesNeverRaise ==
    \A t \in Threads :
        (Done(t, "is_ready") \/ Done(t, "count")) =>
            /\ calls[t].outcome # "raised"
            /\ store_count = 0 => calls[t].outcome \in {"false", "zero"}

\* C19: no VectorStore is constructed before the first get_vectorstore()
\* call, and every call returns the instance the first call constructed.
C19_OneInstance ==
    /\ constructed <= 1
    /\ vectorstore_instance \in {0, 1}
    /\ \A t \in Threads : calls[t].handle \in {0, 1}
    /\ (\A t \in Threads : calls[t].pc = "idle" /\ vectorstore_instance = 0)
          => constructed = 0

\* C20: without a key get_embeddings raises the configuration error before
\* a client is created or a request is made, for every list of texts; with
\* a key it creates one client and makes exactly one request, and a failed
\* request is raised to the caller, not repeated.
C20_FailFastOneCall ==
    \A t \in Threads :
        Done(t, "get_embeddings") =>
            IF ~api_key
            THEN /\ calls[t].outcome = "ValueError"
                 /\ calls[t].clients = 0
                 /\ calls[t].embed_calls = 0
            ELSE /\ calls[t].outcome \in {"returned", "service_error"}
                 /\ calls[t].clients = 1
                 /\ calls[t].embed_calls = 1

\* get_embeddings was called with a key and the request failed.
C20_Witness ==
    \E t \in Threads :
        /\ Done(t, "get_embeddings")
        /\ api_key
        /\ calls[t].outcome = "service_error"
        /\ calls[t].n_texts > 1
        /\ calls[t].embed_calls = 1

\* a step of a health check
HealthStep(t) ==
    /\ calls'[t] # calls[t]
    /\ calls[t].op = "health" \/ calls'[t].op = "health"
    /\ calls'[t] # IdleCall

C27_ConcurrentFirstUse ==
    /\ constructed <= 1
    /\ \A t1, t2 \in Threads :
          (calls[t1].handle # 0 /\ calls[t2].handle # 0) =>
              calls[t1].handle = calls[t2].handle

\* C29: in every health response vectorstore_ready is true exactly when
\* vectorstore_count is positive.
C29_ReadyIffCountPositive ==
    \A t \in Threads :
        Done(t, "health") => (calls[t].ready <=> calls[t].count > 0)

----------------------------------------------------------------------------
(* Properties of the guideline partitions *)

\* C28: the sources of an explanation cite no chunk twice: whatever the
\* documents in the store are called, no chunk is in two of the turkey,
\* acr and eu partitions.
C28_NoChunkCitedTwice ==
    (last_call.kind = "llm" /\ last_call.status = "returned") =>
        /\ \A i, j \in 1..Len(last_call.sources) :
              i # j => last_call.sources[i].chunk_id # last_call.sources[j].chunk_id
        /\ \A i \in 1..Len(last_call.chunks.tr) :
              /\ \A j \in 1..Len(last_call.chunks.us) :
                    last_call.chunks.tr[i] # last_call.chunks.us[j]
              /\ \A j \in 1..Len(last_call.chunks.eu) :
                    last_call.chunks.tr[i] # last_call.chunks.eu[j]
        /\ \A i \in 1..Len(last_call.chunks.us) :
              \A j \in 1..Len(last_call.chunks.eu) :
                  last_call.chunks.us[i] # last_call.chunks.eu[j]

----------------------------------------------------------------------------
(* Properties of the rules *)

Recommended == rule_call.fn = "get_recommendation"

\* the action the thresholds (follow_up, fna) in mm give for a size in half mm
ActionFor(size, follow_up_mm, fna_mm) ==
    IF size >= fna_mm * 2 THEN "fna"
    ELSE IF size >= follow_up_mm * 2 THEN "follow_up"
    ELSE "no_action"

AcrCalled == rule_call.fn = "calculate_acr_tirads"

TableOf(field) ==
    CASE field = "composition" -> COMPOSITION_POINTS
      [] field = "echogenicity" -> ECHOGENICITY_POINTS
      [] field = "shape" -> SHAPE_POINTS
      [] field = "margin" -> MARGIN_POINTS
      [] field = "echogenic_foci" -> ECHOGENIC_FOCI_POINTS

\* C22: points is the sum of the five table values, which is the sum of
\* the points of point_breakdown, and tr_level follows from the total:
\* 0 TR1, 1..2 TR2, 3 TR3, 4..6 TR4, 7 and more TR5, with its description.
C22_PointsAndLevel ==
    AcrCalled =>
        LET r == rule_call.result
            b == r.point_breakdown
            TableValue(field) ==
                IF b[field].value \in DOMAIN TableOf(field)
                THEN TableOf(field)[b[field].value] ELSE 0
        IN  /\ \A field \in Fields : b[field].points = TableValue(field)
            /\ r.points = TableValue("composition") + TableValue("echogenicity")
                    + TableValue("shape") + TableValue("margin")
                    + TableValue("echogenic_foci")
            /\ r.points = b.composition.points + b.echogenicity.points
                    + b.shape.points + b.margin.points + b.echogenic_foci.points
            /\ r.points = 0 <=> r.tr_level = "TR1"
            /\ r.points \in 1..2 <=> r.tr_level = "TR2"
            /\ r.points = 3 <=> r.tr_level = "TR3"
            /\ r.points \in 4..6 <=> r.tr_level = "TR4"
            /\ r.points >= 7 <=> r.tr_level = "TR5"
            /\ r.description = TR_LEVEL_DESCRIPTIONS[r.tr_level]

\* Two points, the upper end of TR2, from a table value of each kind.
C22_Witness ==
    /\ AcrCalled
    /\ rule_call.result.points = 2
    /\ rule_call.result.tr_level = "TR2"
    /\ rule_call.result.point_breakdown.composition.points = 1
    /\ rule_call.result.point_breakdown.echogenicity.points = 1

\* C23: whenever high_suspicious_features is not empty, eu_level is
\* EU-TIRADS 5, High risk, whatever the other findings are.
C23_HighRiskFeatureGivesLevel5 ==
    (rule_call.fn = "classify_eu_tirads"
        /\ rule_call.result.high_suspicious_features # <<>>) =>
            /\ rule_call.result.eu_level = "EU-TIRADS 5"
            /\ rule_call.result.risk_category = "High risk"

\* the request passed NoduleEvaluationRequestSerializer
Validated(findings) == \A field \in Fields : findings[field] \in SerializerChoices[field]

\* C30: every choice the request serializer accepts is a key of the ACR
\* points table of its category, so a validated request is never scored by
\* the 0-point default.
C30_ChoicesAreTableKeys ==
    (AcrCalled /\ Validated(rule_call.findings)) =>
        \A field \in Fields :
            rule_call.result.point_breakdown[field].value \in DOMAIN TableOf(field)

====
